---- MODULE Spec2Model ----
(***************************************************************************)
(* The tool dispatcher of mcp-maintainer-toolkit (handlers/tools.ts) and   *)
(* the server factory (server.ts).                                         *)
(*                                                                         *)
(* A JavaScript value is a record [t, n, h, s, f]:                         *)
(*   t  the runtime type: "undefined", "string", "number", "boolean",      *)
(*      "object" or "array";                                               *)
(*   n, h  a number n + h/2 (h is 0 or 1), so that whole numbers and       *)
(*      numbers with a fractional part are both present; a boolean is      *)
(*      n = 1 (true) or n = 0 (false);                                     *)
(*   s  the characters of a string;                                        *)
(*   f  the properties of an object (a record: an absent key is a key the  *)
(*      record does not have) or the elements of an array (a sequence).    *)
(***************************************************************************)
EXTENDS Integers, Sequences, FiniteSets, TLC

VARIABLES
    open,         \* open[s]: the transport of session s is connected
    invs,         \* the tools/call invocations, in order of arrival
    listReply,    \* listReply[s]: the tools/list responses sent on s, in order
    cleanupRuns,  \* cleanupRuns[s]: how often cleanupResources ran for server s
    declared,     \* declared[s]: the capabilities the client of s declared to server s
    clientCapabilities  \* what setClientCapabilities was last given

vars == <<open, invs, listReply, cleanupRuns, declared, clientCapabilities>>

-----------------------------------------------------------------------------
(* JavaScript values *)

Undef == [t |-> "undefined", n |-> 0, h |-> 0, s |-> "", f |-> <<>>]
Str(x) == [t |-> "string", n |-> 0, h |-> 0, s |-> x, f |-> <<>>]
Num(k) == [t |-> "number", n |-> k, h |-> 0, s |-> "", f |-> <<>>]
NumHalf(k) == [t |-> "number", n |-> k, h |-> 1, s |-> "", f |-> <<>>]
Bool(b) == [t |-> "boolean", n |-> IF b THEN 1 ELSE 0, h |-> 0, s |-> "", f |-> <<>>]
Obj(r) == [t |-> "object", n |-> 0, h |-> 0, s |-> "", f |-> r]
Arr(q) == [t |-> "array", n |-> 0, h |-> 0, s |-> "", f |-> q]

\* o[k] of JavaScript: undefined when o has no property k (or is no object)
Get(o, k) == IF o.t = "object" /\ k \in DOMAIN o.f THEN o.f[k] ELSE Undef

\* Number.isInteger
IsInteger(v) == v.h = 0

\* x <= y, x < y on numbers n + h/2
NumLeq(x, y) == 2 * x.n + x.h <= 2 * y.n + y.h
NumLess(x, y) == 2 * x.n + x.h < 2 * y.n + y.h

\* x + y on numbers
NumAdd(x, y) ==
    [Num(x.n + y.n + ((x.h + y.h) \div 2)) EXCEPT !.h = (x.h + y.h) % 2]

\* String(x) of a number: the digits of n + h/2
NumToString(v) ==
    IF v.h = 0 THEN ToString(v.n)
    ELSE IF v.n >= 0 THEN ToString(v.n) \o ".5"
    ELSE IF v.n = -1 THEN "-0.5"
    ELSE ToString(v.n + 1) \o ".5"

\* String(x), as a template literal `${x}` renders a primitive
ToStr(v) ==
    CASE v.t = "string" -> v.s
      [] v.t = "number" -> NumToString(v)
      [] v.t = "boolean" -> (IF v.n = 1 THEN "true" ELSE "false")
      [] v.t = "undefined" -> "undefined"
      [] v.t = "object" -> "[object Object]"
      [] OTHER -> ""

\* the truthiness of a value in a condition
Truthy(v) ==
    CASE v.t = "undefined" -> FALSE
      [] v.t = "string" -> v.s # ""
      [] v.t = "number" -> ~(v.n = 0 /\ v.h = 0)
      [] v.t = "boolean" -> v.n = 1
      [] OTHER -> TRUE

-----------------------------------------------------------------------------
(* Schemas: the zod declarations of handlers/tools.ts.  A check of a string *)
(* or a number is [c, v]: its kind and its bound.                           *)

Check(c, v) == [c |-> c, v |-> v]

ZString(checks) == [k |-> "string", checks |-> checks]
ZNumber(checks) == [k |-> "number", checks |-> checks]
ZBoolean == [k |-> "boolean"]
ZAny == [k |-> "any"]
ZEnum(values) == [k |-> "enum", values |-> values]
ZOptional(inner) == [k |-> "optional", inner |-> inner]
ZDefault(inner, d) == [k |-> "default", inner |-> inner, d |-> d]
ZObject(shape) == [k |-> "object", shape |-> shape]
ZArray(element, checks) == [k |-> "array", element |-> element, checks |-> checks]
Field(key, schema) == [key |-> key, schema |-> schema]

EchoSchema == ZObject(<<
    Field("message", ZString(<<>>)) >>)

AddSchema == ZObject(<<
    Field("a", ZNumber(<<>>)),
    Field("b", ZNumber(<<>>)) >>)

GetCurrentTimeSchema == ZObject(<<
    Field("timezone", ZOptional(ZString(<<>>))) >>)

FormatDataSchema == ZObject(<<
    Field("data", ZAny),
    Field("format", ZDefault(ZEnum(<<"json", "yaml", "table">>), Str("json"))) >>)

LongRunningTaskSchema == ZObject(<<
    Field("duration", ZDefault(ZNumber(<<>>), Num(5))),
    Field("steps", ZDefault(ZNumber(<<>>), Num(3))),
    Field("taskName", ZDefault(ZString(<<>>), Str("Processing"))) >>)

AnnotatedResponseSchema == ZObject(<<
    Field("messageType", ZEnum(<<"info", "warning", "error", "success">>)),
    Field("includeMetadata", ZDefault(ZBoolean, Bool(TRUE))) >>)

ComplexOrderSchema == ZObject(<<
    Field("customerName", ZString(<<>>)),
    Field("customerTaxId", ZString(<<>>)),
    Field("customerEmail", ZString(<<Check("email", 0)>>)),
    Field("shippingAddress", ZObject(<<
        Field("street", ZString(<<>>)),
        Field("city", ZString(<<>>)),
        Field("state", ZString(<<>>)),
        Field("zipCode", ZString(<<>>)),
        Field("country", ZDefault(ZString(<<>>), Str("US"))) >>)),
    Field("items", ZArray(ZObject(<<
        Field("productName", ZString(<<>>)),
        Field("productSku", ZString(<<>>)),
        Field("quantity", ZNumber(<<Check("min", 1)>>)),
        Field("unitPrice", ZNumber(<<Check("min", 0)>>)),
        Field("category", ZEnum(<<"electronics", "clothing", "books", "home", "other">>)),
        Field("metadata", ZOptional(ZObject(<<
            Field("weight", ZOptional(ZNumber(<<>>))),
            Field("dimensions", ZOptional(ZObject(<<
                Field("length", ZNumber(<<>>)),
                Field("width", ZNumber(<<>>)),
                Field("height", ZNumber(<<>>)) >>))) >>))) >>),
        <<Check("min", 1)>>)),
    Field("discounts", ZOptional(ZArray(ZObject(<<
        Field("code", ZString(<<>>)),
        Field("amount", ZNumber(<<>>)),
        Field("type", ZEnum(<<"percentage", "fixed">>)) >>),
        <<>>))),
    Field("total", ZNumber(<<Check("min", 0)>>)),
    Field("notes", ZOptional(ZString(<<>>))) >>)

StrictTypeValidationSchema == ZObject(<<
    Field("stringField", ZString(<<Check("min", 1)>>)),
    Field("numberField", ZNumber(<<>>)),
    Field("integerField", ZNumber(<<Check("int", 0)>>)),
    Field("booleanField", ZBoolean),
    Field("emailField", ZString(<<Check("email", 0)>>)),
    Field("urlField", ZString(<<Check("url", 0)>>)),
    Field("enumField", ZEnum(<<"option1", "option2", "option3">>)),
    Field("dateField", ZString(<<Check("regex", 0)>>)),
    Field("positiveNumber", ZNumber(<<Check("positive", 0)>>)),
    Field("stringWithLength", ZString(<<Check("min", 5), Check("max", 20)>>)) >>)

UnionTypeTestSchema == ZObject(<<
    Field("optionalString", ZOptional(ZString(<<>>))),
    Field("optionalNumber", ZOptional(ZNumber(<<>>))),
    Field("optionalBoolean", ZOptional(ZBoolean)),
    Field("requiredString", ZString(<<>>)) >>)

-----------------------------------------------------------------------------
(* The string formats zod checks, character by character *)

Char(s, i) == SubSeq(s, i, i)
Digits == {"0", "1", "2", "3", "4", "5", "6", "7", "8", "9"}
Letters == {"a", "b", "c", "d", "e", "f", "g", "h", "i", "j", "k", "l", "m",
            "n", "o", "p", "q", "r", "s", "t", "u", "v", "w", "x", "y", "z",
            "A", "B", "C", "D", "E", "F", "G", "H", "I", "J", "K", "L", "M",
            "N", "O", "P", "Q", "R", "S", "T", "U", "V", "W", "X", "Y", "Z"}

\* /^\d{4}-\d{2}-\d{2}$/
MatchesDate(s) ==
    /\ Len(s) = 10
    /\ \A i \in {1, 2, 3, 4, 6, 7, 9, 10} : Char(s, i) \in Digits
    /\ \A i \in {5, 8} : Char(s, i) = "-"

\* zod's email pattern: a local part of letters, digits and _'+-. that neither
\* starts with a dot, nor ends with one, nor has two in a row; an @; one or
\* more labels (a letter or digit, then letters, digits, hyphens) each closed
\* by a dot; a last label of two or more letters.
IsEmail(s) ==
    \E p \in 1..Len(s) :
        /\ Char(s, p) = "@"
        /\ p > 1
        /\ \A i \in 1..(p - 1) :
               Char(s, i) \in Letters \cup Digits \cup {"_", "'", "+", "-", "."}
        /\ Char(s, 1) # "."
        /\ Char(s, p - 1) # "."
        /\ \A i \in 1..(p - 2) : ~(Char(s, i) = "." /\ Char(s, i + 1) = ".")
        /\ \E q \in (p + 2)..(Len(s) - 2) :
               /\ Char(s, q) = "."
               /\ \A i \in (q + 1)..Len(s) : Char(s, i) \in Letters
               /\ \A i \in (p + 1)..(q - 1) :
                      /\ Char(s, i) \in Letters \cup Digits \cup {"-", "."}
                      /\ Char(s, i) = "." => Char(s, i + 1) # "."
                      /\ (i = p + 1 \/ Char(s, i - 1) = ".") =>
                             Char(s, i) \in Letters \cup Digits

\* new URL(s) succeeds: s opens with a scheme (a letter, then letters, digits,
\* + - .) and a colon, and an http or https URL names a host after its slashes.
IsUrl(s) ==
    \E p \in 2..Len(s) :
        /\ Char(s, p) = ":"
        /\ Char(s, 1) \in Letters
        /\ \A i \in 1..(p - 1) : Char(s, i) \in Letters \cup Digits \cup {"+", "-", "."}
        /\ SubSeq(s, 1, p - 1) \in {"http", "https"} =>
               \E i \in (p + 1)..Len(s) : Char(s, i) \notin {"/", "\\"}

-----------------------------------------------------------------------------
(* Schema.parse: zod's traversal.  An issue is [path, code]: the keys (and  *)
(* array indices, as digits) leading to the offending value, and zod's      *)
(* issue code.  Issues come in traversal order: the keys of an object in    *)
(* declared order, the checks of an array before its elements, the elements *)
(* in index order, the checks of a string or number in declared order.      *)

Issue(path, code) == [path |-> path, code |-> code]

\* the issue of one failed check of a string, <<>> when it passes
StringCheck(c, v, path) ==
    CASE c.c = "min" -> IF Len(v.s) < c.v THEN <<Issue(path, "too_small")>> ELSE <<>>
      [] c.c = "max" -> IF Len(v.s) > c.v THEN <<Issue(path, "too_big")>> ELSE <<>>
      [] c.c = "email" -> IF IsEmail(v.s) THEN <<>> ELSE <<Issue(path, "invalid_string")>>
      [] c.c = "url" -> IF IsUrl(v.s) THEN <<>> ELSE <<Issue(path, "invalid_string")>>
      [] c.c = "regex" -> IF MatchesDate(v.s) THEN <<>> ELSE <<Issue(path, "invalid_string")>>
      [] OTHER -> <<>>

\* the issue of one failed check of a number, <<>> when it passes
NumberCheck(c, v, path) ==
    CASE c.c = "int" -> IF IsInteger(v) THEN <<>> ELSE <<Issue(path, "invalid_type")>>
      [] c.c = "min" -> IF NumLess(v, Num(c.v)) THEN <<Issue(path, "too_small")>> ELSE <<>>
      [] c.c = "positive" -> IF NumLeq(v, Num(0)) THEN <<Issue(path, "too_small")>> ELSE <<>>
      [] OTHER -> <<>>

\* the issue of one failed check of an array, <<>> when it passes
ArrayCheck(c, v, path) ==
    CASE c.c = "min" -> IF Len(v.f) < c.v THEN <<Issue(path, "too_small")>> ELSE <<>>
      [] OTHER -> <<>>

RECURSIVE Issues(_, _, _)
RECURSIVE ShapeIssues(_, _, _, _)
RECURSIVE ElementIssues(_, _, _, _)
RECURSIVE ChecksIssues(_, _, _, _, _)
RECURSIVE ShapeIssuesReversed(_, _, _, _)

\* the issues of checks[i..] on v
ChecksIssues(kind, checks, v, path, i) ==
    IF i > Len(checks) THEN <<>>
    ELSE (CASE kind = "string" -> StringCheck(checks[i], v, path)
            [] kind = "number" -> NumberCheck(checks[i], v, path)
            [] OTHER -> ArrayCheck(checks[i], v, path))
         \o ChecksIssues(kind, checks, v, path, i + 1)

\* the keys of an object visited last to first
ShapeIssuesReversed(shape, v, path, i) ==
    IF i > Len(shape) THEN <<>>
    ELSE ShapeIssuesReversed(shape, v, path, i + 1)
         \o Issues(shape[i].schema, Get(v, shape[i].key), Append(path, shape[i].key))

\* the issues of the keys shape[i..] of object v
ShapeIssues(shape, v, path, i) ==
    IF i > Len(shape) THEN <<>>
    ELSE Issues(shape[i].schema, Get(v, shape[i].key), Append(path, shape[i].key))
         \o ShapeIssues(shape, v, path, i + 1)

\* the issues of the elements v[i..] of array v
ElementIssues(element, v, path, i) ==
    IF i > Len(v.f) THEN <<>>
    ELSE Issues(element, v.f[i], Append(path, ToString(i - 1)))
         \o ElementIssues(element, v, path, i + 1)

Issues(schema, v, path) ==
    CASE schema.k = "any" -> <<>>
      [] schema.k = "optional" ->
            IF v.t = "undefined" THEN <<>> ELSE Issues(schema.inner, v, path)
      [] schema.k = "default" ->
            Issues(schema.inner, IF v.t = "undefined" THEN schema.d ELSE v, path)
      [] schema.k = "string" ->
            IF v.t # "string" THEN <<Issue(path, "invalid_type")>>
            ELSE ChecksIssues("string", schema.checks, v, path, 1)
      [] schema.k = "number" ->
            IF v.t # "number" THEN <<Issue(path, "invalid_type")>>
            ELSE ChecksIssues("number", schema.checks, v, path, 1)
      [] schema.k = "boolean" ->
            IF v.t # "boolean" THEN <<Issue(path, "invalid_type")>> ELSE <<>>
      [] schema.k = "enum" ->
            IF v.t # "string" THEN <<Issue(path, "invalid_type")>>
            ELSE IF \E i \in DOMAIN schema.values : schema.values[i] = v.s THEN <<>>
            ELSE <<Issue(path, "invalid_enum_value")>>
      [] schema.k = "object" ->
            IF v.t # "object" THEN <<Issue(path, "invalid_type")>>
            ELSE ShapeIssues(schema.shape, v, path, 1)
      [] schema.k = "array" ->
            IF v.t # "array" THEN <<Issue(path, "invalid_type")>>
            ELSE ChecksIssues("array", schema.checks, v, path, 1)
                 \o ElementIssues(schema.element, v, path, 1)
      [] OTHER -> <<>>

RECURSIVE Output(_, _)

\* what parse returns for a value without issues: defaults filled in, the
\* keys the schema does not declare stripped
Output(schema, v) ==
    CASE schema.k = "optional" ->
            IF v.t = "undefined" THEN Undef ELSE Output(schema.inner, v)
      [] schema.k = "default" ->
            Output(schema.inner, IF v.t = "undefined" THEN schema.d ELSE v)
      [] schema.k = "object" ->
            Obj([key \in {schema.shape[i].key : i \in DOMAIN schema.shape} |->
                   LET i == CHOOSE j \in DOMAIN schema.shape : schema.shape[j].key = key
                   IN  Output(schema.shape[i].schema, Get(v, key))])
      [] schema.k = "array" ->
            Arr([i \in DOMAIN v.f |-> Output(schema.element, v.f[i])])
      [] OTHER -> v

-----------------------------------------------------------------------------
(* What a call of the handler ends with: a returned result or a thrown error *)

NoOutcome == [kind |-> "none", content |-> <<>>, error |-> "", message |-> "", issues |-> <<>>]
Return(content) == [NoOutcome EXCEPT !.kind = "return", !.content = content]
Throw(message) == [NoOutcome EXCEPT !.kind = "throw", !.error = "Error", !.message = message]
ThrowZodError(issues) == [NoOutcome EXCEPT !.kind = "throw", !.error = "ZodError", !.issues = issues]

\* a content block; priority is in tenths, -1 where the block has no annotations
NoAnnotations == [priority |-> -1, audience |-> <<>>, messageType |-> "", category |-> ""]
Text(text) == [type |-> "text", text |-> text, annotations |-> NoAnnotations]
Annotated(text, priority, audience, messageType, category) ==
    [type |-> "text", text |-> text,
     annotations |-> [priority |-> priority, audience |-> audience,
                      messageType |-> messageType, category |-> category]]

\* Schema.parse(args) succeeded
Valid(schema, args) == Issues(schema, args, <<>>) = <<>>

\* the position of the handler after a step: suspended on the timer of loop
\* round i ("timer") or finished ("done"); timers counts the setTimeout calls
Done(outcome) ==
    [pc |-> "done", i |-> 0, timers |-> 0, validatedArgs |-> Undef, result |-> outcome]

-----------------------------------------------------------------------------
(* The tools: the branches of the CallToolRequestSchema handler *)

ECHO == "echo"
ADD == "add"
GET_CURRENT_TIME == "getCurrentTime"
FORMAT_DATA == "formatData"
LONG_RUNNING_TASK == "longRunningTask"
ANNOTATED_RESPONSE == "annotatedResponse"
COMPLEX_ORDER == "complexOrder"
STRICT_TYPE_VALIDATION == "strictTypeValidation"
UNION_TYPE_TEST == "unionTypeTest"

ToolName == {ECHO, ADD, GET_CURRENT_TIME, FORMAT_DATA, LONG_RUNNING_TASK,
             ANNOTATED_RESPONSE, COMPLEX_ORDER, STRICT_TYPE_VALIDATION, UNION_TYPE_TEST}

Echo(args) ==
    IF ~Valid(EchoSchema, args) THEN ThrowZodError(Issues(EchoSchema, args, <<>>))
    ELSE LET validatedArgs == Output(EchoSchema, args)
         IN  Return(<<Text("Echo: " \o ToStr(Get(validatedArgs, "message")))>>)

Add(args) ==
    IF ~Valid(AddSchema, args) THEN ThrowZodError(Issues(AddSchema, args, <<>>))
    ELSE LET validatedArgs == Output(AddSchema, args)
             a == Get(validatedArgs, "a")
             b == Get(validatedArgs, "b")
             sum == NumAdd(a, b)
         IN  Return(<<Text("The sum of " \o ToStr(a) \o " and " \o ToStr(b)
                           \o " is " \o ToStr(sum) \o ".")>>)

\* the time zones Intl accepts; toLocaleString throws a RangeError on any other
TimeZones == {"UTC", "America/New_York", "Europe/Paris"}
\* what now.toLocaleString prints: the clock is not modelled
Now == "<now>"

\* a catch that swallows the RangeError and prints the time all the same
LocaleStringLenient(timezone) == Return(<<Text(Now)>>)

\* toLocaleString("en-US", {timeZone}) inside try/catch: the catch rethrows
LocaleStringOrThrow(timezone) ==
    IF timezone \in TimeZones THEN Return(<<Text(Now)>>)
    ELSE Throw("Invalid timezone: " \o timezone)

GetCurrentTime(args) ==
    IF ~Valid(GetCurrentTimeSchema, args)
    THEN ThrowZodError(Issues(GetCurrentTimeSchema, args, <<>>))
    ELSE LET validatedArgs == Output(GetCurrentTimeSchema, args)
             timezone == Get(validatedArgs, "timezone")
         IN  IF Truthy(timezone)
             THEN LET timeString == LocaleStringOrThrow(timezone.s)
                  IN  IF timeString.kind = "throw" THEN timeString
                      ELSE Return(<<Text("Current time: " \o timeString.content[1].text
                                         \o " (" \o timezone.s \o ")")>>)
             ELSE Return(<<Text("Current time: " \o Now \o " (local timezone)")>>)

\* JSON.stringify(data, null, 2) of a primitive (undefined stays undefined and
\* prints as such in the template)
JsonStringify(data) ==
    IF data.t = "string" THEN "\"" \o data.s \o "\"" ELSE ToStr(data)

\* formatAsYaml and formatAsTable of a primitive both end in String(data)
FormatData(args) ==
    IF ~Valid(FormatDataSchema, args) THEN ThrowZodError(Issues(FormatDataSchema, args, <<>>))
    ELSE LET validatedArgs == Output(FormatDataSchema, args)
             data == Get(validatedArgs, "data")
             format == Get(validatedArgs, "format").s
             formatted == IF format = "json" THEN JsonStringify(data) ELSE ToStr(data)
         IN  Return(<<Text("Data formatted as " \o format \o ":\n\n" \o formatted)>>)

Priorities(messageType) ==
    CASE messageType = "info" -> 5
      [] messageType = "warning" -> 7
      [] messageType = "error" -> 10
      [] OTHER -> 6

Audiences(messageType) ==
    IF messageType \in {"info", "error"} THEN <<"user", "assistant">> ELSE <<"user">>

AnnotatedResponse(args) ==
    IF ~Valid(AnnotatedResponseSchema, args)
    THEN ThrowZodError(Issues(AnnotatedResponseSchema, args, <<>>))
    ELSE LET validatedArgs == Output(AnnotatedResponseSchema, args)
             messageType == Get(validatedArgs, "messageType").s
             includeMetadata == Get(validatedArgs, "includeMetadata")
             first == Annotated("This is a " \o messageType \o " message demonstrating annotations.",
                                Priorities(messageType), Audiences(messageType), messageType, "")
             second == Annotated("Metadata: Generated at " \o Now, 2, <<"assistant">>, "", "metadata")
         IN  Return(IF Truthy(includeMetadata) THEN <<first, second>> ELSE <<first>>)

ComplexOrder(args) ==
    IF ~Valid(ComplexOrderSchema, args)
    THEN ThrowZodError(Issues(ComplexOrderSchema, args, <<>>))
    ELSE LET validatedArgs == Output(ComplexOrderSchema, args)
         IN  Return(<<Text("Complex order processed successfully for "
                           \o ToStr(Get(validatedArgs, "customerName"))
                           \o ". Total: $" \o ToStr(Get(validatedArgs, "total"))
                           \o ". Items: " \o ToString(Len(Get(validatedArgs, "items").f)))>>)

StrictTypeValidation(args) ==
    IF ~Valid(StrictTypeValidationSchema, args)
    THEN ThrowZodError(Issues(StrictTypeValidationSchema, args, <<>>))
    ELSE LET validatedArgs == Output(StrictTypeValidationSchema, args)
         IN  Return(<<Text("All fields validated successfully. String: \""
                           \o ToStr(Get(validatedArgs, "stringField"))
                           \o "\", Number: " \o ToStr(Get(validatedArgs, "numberField"))
                           \o ", Integer: " \o ToStr(Get(validatedArgs, "integerField")))>>)

RECURSIVE Join(_, _)
\* parts.join(sep)
Join(parts, sep) ==
    IF parts = <<>> THEN ""
    ELSE IF Len(parts) = 1 THEN parts[1]
    ELSE parts[1] \o sep \o Join(Tail(parts), sep)

UnionTypeTest(args) ==
    IF ~Valid(UnionTypeTestSchema, args)
    THEN ThrowZodError(Issues(UnionTypeTestSchema, args, <<>>))
    ELSE LET validatedArgs == Output(UnionTypeTestSchema, args)
             s == Get(validatedArgs, "optionalString")
             n == Get(validatedArgs, "optionalNumber")
             b == Get(validatedArgs, "optionalBoolean")
             optionals ==
                 (IF s.t # "undefined" THEN <<"optionalString: \"" \o ToStr(s) \o "\"">> ELSE <<>>)
                 \o (IF n.t # "undefined" THEN <<"optionalNumber: " \o ToStr(n)>> ELSE <<>>)
                 \o (IF b.t # "undefined" THEN <<"optionalBoolean: " \o ToStr(b)>> ELSE <<>>)
             optionalText ==
                 IF Len(optionals) > 0
                 THEN "Optional parameters provided: " \o Join(optionals, ", ")
                 ELSE "No optional parameters provided"
         IN  Return(<<Text("Union type test completed! Required: \""
                           \o ToStr(Get(validatedArgs, "requiredString"))
                           \o "\". " \o optionalText)>>)

\* the fall-through answering with a result instead of throwing
UnknownToolReturned(name) == Return(<<Text("Unknown tool: " \o name)>>)

\* the handler's last statement
UnknownTool(name) == Throw("Unknown tool: " \o name)

-----------------------------------------------------------------------------
(* longRunningTask: the loop of timers and progress notifications *)

\* the loop with its bound off by one: i < steps
LoopContinuesStrict(i, steps) == NumLess(Num(i), steps)

\* the loop going round once more than asked: i <= steps + 1
LoopContinuesOneMore(i, steps) == NumLeq(Num(i), NumAdd(steps, Num(1)))

\* i <= steps, the condition of the for loop
LoopContinues(i, steps) == NumLeq(Num(i), steps)

\* the notification sent whether or not the caller gave a token
ProgressDueAlways(progressToken) == TRUE

\* progressToken !== undefined
ProgressDue(progressToken) == progressToken.t # "undefined"

\* the return statement after the loop
Completed(validatedArgs) ==
    Return(<<Text(ToStr(Get(validatedArgs, "taskName")) \o " completed! Duration: "
                  \o ToStr(Get(validatedArgs, "duration")) \o " seconds, Steps: "
                  \o ToStr(Get(validatedArgs, "steps")) \o ".")>>)

\* the head of the loop reached with counter i after `timers` timers: the
\* handler suspends on the timer of round i, or leaves the loop and returns
LoopHead(validatedArgs, i, timers) ==
    IF LoopContinues(i, Get(validatedArgs, "steps"))
    THEN [pc |-> "timer", i |-> i, timers |-> timers + 1,
          validatedArgs |-> validatedArgs, result |-> NoOutcome]
    ELSE [pc |-> "done", i |-> i, timers |-> timers,
          validatedArgs |-> validatedArgs, result |-> Completed(validatedArgs)]

\* the branch reading its arguments without parse having checked them
LongRunningTaskUnchecked(args) == LoopHead(Output(LongRunningTaskSchema, args), 1, 0)

\* the branch up to its first await
LongRunningTask(args) ==
    IF ~Valid(LongRunningTaskSchema, args)
    THEN Done(ThrowZodError(Issues(LongRunningTaskSchema, args, <<>>)))
    ELSE LoopHead(Output(LongRunningTaskSchema, args), 1, 0)

\* the handler from its entry to its first await or its end
CallToolRequestHandler(name, args) ==
    CASE name = ECHO -> Done(Echo(args))
      [] name = ADD -> Done(Add(args))
      [] name = GET_CURRENT_TIME -> Done(GetCurrentTime(args))
      [] name = FORMAT_DATA -> Done(FormatData(args))
      [] name = LONG_RUNNING_TASK -> LongRunningTask(args)
      [] name = ANNOTATED_RESPONSE -> Done(AnnotatedResponse(args))
      [] name = COMPLEX_ORDER -> Done(ComplexOrder(args))
      [] name = STRICT_TYPE_VALIDATION -> Done(StrictTypeValidation(args))
      [] name = UNION_TYPE_TEST -> Done(UnionTypeTest(args))
      [] OTHER -> Done(UnknownTool(name))

-----------------------------------------------------------------------------
(* Messages to the caller *)

ProgressNotification(i, steps, progressToken) ==
    [method |-> "notifications/progress", progress |-> Num(i), total |-> steps,
     progressToken |-> progressToken, outcome |-> NoOutcome]

\* the response that ends the request: the returned result, or the error thrown
Response(outcome) ==
    [method |-> "response", progress |-> Undef, total |-> Undef,
     progressToken |-> Undef, outcome |-> outcome]

\* a message written to a channel that is connected or not
Sent(out, connected, message) == IF connected THEN Append(out, message) ELSE out

\* a handler that tears its session down when it throws
SessionsAfterFault(s, outcome) ==
    IF outcome.kind = "throw" THEN [open EXCEPT ![s] = FALSE] ELSE open

\* the sessions after a call on session s ended with `outcome`: the handler
\* closes nothing and ends no process, whatever it returns or throws
SessionsAfter(s, outcome) == open

\* the invocation after the timer of its round fired, on a channel that is
\* connected or not; sendThrows: writing to the closed channel raises
\* ("Not connected") instead of dropping the message
AfterTimer(inv, connected, sendThrows) ==
    LET steps == Get(inv.validatedArgs, "steps")
        due == ProgressDue(inv.progressToken)
        notified == IF due
                    THEN Sent(inv.out, connected,
                              ProgressNotification(inv.i, steps, inv.progressToken))
                    ELSE inv.out
        h == IF due /\ ~connected /\ sendThrows
             THEN [pc |-> "done", i |-> inv.i, timers |-> inv.timers,
                   validatedArgs |-> inv.validatedArgs, result |-> Throw("Not connected")]
             ELSE LoopHead(inv.validatedArgs, inv.i + 1, inv.timers)
    IN  [inv EXCEPT !.pc = h.pc, !.i = h.i, !.timers = h.timers, !.result = h.result,
                    !.out = IF h.pc = "done" THEN Sent(notified, connected, Response(h.result))
                            ELSE notified]

-----------------------------------------------------------------------------
(* The tool listing *)

\* zodToJsonSchema of an object schema, as far as the listing is read here:
\* its property names, and those a caller must supply (neither optional, nor
\* defaulted, nor any)
ZodToJsonSchema(schema) ==
    LET required == SelectSeq(schema.shape,
                        LAMBDA fld : fld.schema.k \notin {"optional", "default", "any"})
    IN  [type |-> "object",
         properties |-> [i \in DOMAIN schema.shape |-> schema.shape[i].key],
         required |-> [i \in DOMAIN required |-> required[i].key]]

\* the schema the listing publishes for a tool
InputSchema(name) ==
    CASE name = ECHO -> EchoSchema
      [] name = ADD -> AddSchema
      [] name = GET_CURRENT_TIME -> GetCurrentTimeSchema
      [] name = FORMAT_DATA -> FormatDataSchema
      [] name = LONG_RUNNING_TASK -> LongRunningTaskSchema
      [] name = ANNOTATED_RESPONSE -> AnnotatedResponseSchema
      [] name = COMPLEX_ORDER -> ComplexOrderSchema
      [] name = STRICT_TYPE_VALIDATION -> StrictTypeValidationSchema
      [] name = UNION_TYPE_TEST -> UnionTypeTestSchema

Tool(name, description) ==
    [name |-> name, description |-> description,
     inputSchema |-> ZodToJsonSchema(InputSchema(name))]

\* the array with its second entry a copy of the first, its name not updated
ToolsCopied == <<
    Tool(ECHO, "Echoes back the input message"),
    Tool(ECHO, "Adds two numbers together"),
    Tool(GET_CURRENT_TIME, "Gets the current date and time"),
    Tool(FORMAT_DATA, "Formats data in different output formats"),
    Tool(LONG_RUNNING_TASK, "Demonstrates a long-running task with progress updates"),
    Tool(ANNOTATED_RESPONSE, "Demonstrates annotated responses with metadata"),
    Tool(COMPLEX_ORDER, "Tests complex nested objects and arrays (Issue #332)"),
    Tool(STRICT_TYPE_VALIDATION, "Tests strict type validation and error handling (Issue #187)"),
    Tool(UNION_TYPE_TEST, "Tests union type support for optional parameters (PR #673)") >>

\* a listing that leaves out the last tool
ToolsButLast == <<
    Tool(ECHO, "Echoes back the input message"),
    Tool(ADD, "Adds two numbers together"),
    Tool(GET_CURRENT_TIME, "Gets the current date and time"),
    Tool(FORMAT_DATA, "Formats data in different output formats"),
    Tool(LONG_RUNNING_TASK, "Demonstrates a long-running task with progress updates"),
    Tool(ANNOTATED_RESPONSE, "Demonstrates annotated responses with metadata"),
    Tool(COMPLEX_ORDER, "Tests complex nested objects and arrays (Issue #332)"),
    Tool(STRICT_TYPE_VALIDATION, "Tests strict type validation and error handling (Issue #187)") >>

\* the array the ListToolsRequestSchema handler returns
Tools == <<
    Tool(ECHO, "Echoes back the input message"),
    Tool(ADD, "Adds two numbers together"),
    Tool(GET_CURRENT_TIME, "Gets the current date and time"),
    Tool(FORMAT_DATA, "Formats data in different output formats"),
    Tool(LONG_RUNNING_TASK, "Demonstrates a long-running task with progress updates"),
    Tool(ANNOTATED_RESPONSE, "Demonstrates annotated responses with metadata"),
    Tool(COMPLEX_ORDER, "Tests complex nested objects and arrays (Issue #332)"),
    Tool(STRICT_TYPE_VALIDATION, "Tests strict type validation and error handling (Issue #187)"),
    Tool(UNION_TYPE_TEST, "Tests union type support for optional parameters (PR #673)") >>

\* createServer's cleanup: each call awaits cleanupResources once
CleanupRuns(runs) == runs + 1

-----------------------------------------------------------------------------
(* The requests the callers send *)

\* tool calls, listings and cleanup calls made in one run
MaxOperations == 2

Sessions == {"s1", "s2"}

Request(name, args, progressToken) ==
    [name |-> name, args |-> args, progressToken |-> progressToken]

\* marks a key the caller leaves out
Absent == [Undef EXCEPT !.t = "absent"]

RECURSIVE ObjectsOver(_)
\* the objects that give each key of `fields` one of its values, or leave it out
ObjectsOver(fields) ==
    IF Len(fields) = 0 THEN {[k \in {} |-> Undef]}
    ELSE LET fld == Head(fields)
         IN  {IF v.t = "absent" THEN r ELSE (fld.key :> v) @@ r :
                 v \in fld.values, r \in ObjectsOver(Tail(fields))}

Values(key, values) == [key |-> key, values |-> values]
ArgsOver(fields) == {Obj(r) : r \in ObjectsOver(fields)}

\* the interleaved runs draw from these
Requests == {
    Request(ECHO, Obj([message |-> Str("hi")]), Undef),
    Request(ADD, Obj([a |-> Str("x"), b |-> Num(3)]), Undef),
    Request(GET_CURRENT_TIME, Obj([timezone |-> Str("Mars/Phobos")]), Undef),
    Request("doesNotExist", Obj([k \in {} |-> Undef]), Undef),
    Request(LONG_RUNNING_TASK, Obj([duration |-> Num(3), steps |-> Num(2)]), Str("tok")),
    Request(LONG_RUNNING_TASK, Obj([steps |-> NumHalf(1)]), Str("tok")),
    Request(LONG_RUNNING_TASK, Obj([k \in {} |-> Undef]), Undef) }

ValidAddress ==
    Obj([street |-> Str("1 Main St"), city |-> Str("Springfield"),
         state |-> Str("IL"), zipCode |-> Str("62701")])
ValidItem ==
    Obj([productName |-> Str("Widget"), productSku |-> Str("W-1"), quantity |-> Num(2),
         unitPrice |-> NumHalf(9), category |-> Str("home")])
ValidOrder ==
    [customerName |-> Str("Ada Lovelace"), customerTaxId |-> Str("123-45-6789"),
     customerEmail |-> Str("ada@example.com"), shippingAddress |-> ValidAddress,
     items |-> Arr(<<ValidItem>>), total |-> Num(19)]

ComplexOrderArgs == {
    Obj(ValidOrder),
    Obj([k \in DOMAIN ValidOrder \ {"customerName"} |-> ValidOrder[k]]),
    Obj([ValidOrder EXCEPT !.customerEmail = Str("ada.example.com")]),
    Obj([ValidOrder EXCEPT !.shippingAddress = Str("1 Main St")]),
    Obj([ValidOrder EXCEPT !.items = Arr(<<>>)]),
    Obj([ValidOrder EXCEPT !.items =
            Arr(<<ValidItem, Obj([ValidItem.f EXCEPT !.quantity = Num(0)])>>)]),
    Obj([ValidOrder EXCEPT !.total = Num(-1)]),
    Obj([ValidOrder EXCEPT !.shippingAddress =
            Obj([street |-> Str("1 Main St"), zipCode |-> Str("62701")])]),
    Obj([k \in DOMAIN ValidOrder \ {"customerTaxId", "total"} |->
            IF k = "items"
            THEN Arr(<<ValidItem, Obj([productName |-> Str("Gadget"), quantity |-> Num(1),
                                       unitPrice |-> Num(4)])>>)
            ELSE ValidOrder[k]]),
    Obj([ValidOrder EXCEPT !.items =
            Arr(<<Obj(("metadata" :> Obj([dimensions |-> Obj([width |-> Num(2)])]))
                      @@ ValidItem.f)>>)]),
    Obj(("discounts" :> Arr(<<Obj([code |-> Str("X"), amount |-> Num(1),
                                   type |-> Str("bogus")])>>)) @@ ValidOrder) }

ValidStrict ==
    [stringField |-> Str("abc"), numberField |-> NumHalf(3), integerField |-> Num(7),
     booleanField |-> Bool(TRUE), emailField |-> Str("a@b.co"),
     urlField |-> Str("https://example.com"), enumField |-> Str("option2"),
     dateField |-> Str("2024-01-31"), positiveNumber |-> Num(5),
     stringWithLength |-> Str("hello")]

InvalidStrict ==
    [stringField |-> Str(""), numberField |-> Str("abc"), integerField |-> NumHalf(3),
     booleanField |-> Str("yes"), emailField |-> Str("a@b"),
     urlField |-> Str("example"), enumField |-> Str("option4"),
     dateField |-> Str("31-01-2024"), positiveNumber |-> Num(-5),
     stringWithLength |-> Str("hey")]

\* every subset of the fields left out, and each field wrong in turn
StrictTypeValidationArgs ==
    ArgsOver([i \in 1..Len(StrictTypeValidationSchema.shape) |->
                 LET key == StrictTypeValidationSchema.shape[i].key
                 IN  Values(key, {Absent, ValidStrict[key]})])
    \cup {Obj([ValidStrict EXCEPT ![key] = InvalidStrict[key]]) : key \in DOMAIN ValidStrict}

Tokens == {Undef, Str("tok"), Num(0)}

\* the single calls draw from these
WideRequests ==
    {Request(ECHO, a, tk) :
        a \in {Undef} \cup ArgsOver(<<Values("message", {Absent, Str("hi"), Num(3)})>>),
        tk \in {Undef, Str("tok")}}
    \cup {Request(ADD, a, Undef) :
        a \in ArgsOver(<<Values("a", {Absent, Str("x"), Num(2), NumHalf(1)}),
                         Values("b", {Absent, Bool(TRUE), Num(3), NumHalf(-2)})>>)}
    \cup {Request(GET_CURRENT_TIME, a, Undef) :
        a \in {Undef} \cup ArgsOver(<<Values("timezone",
                  {Absent, Str("UTC"), Str("Mars/Phobos"), Str(""), Num(3)})>>)}
    \cup {Request(FORMAT_DATA, a, Undef) :
        a \in ArgsOver(<<Values("data", {Absent, Str("x"), NumHalf(3), Bool(FALSE)}),
                         Values("format", {Absent, Str("json"), Str("yaml"), Str("table"),
                                           Str("xml"), Num(1)})>>)}
    \cup {Request(LONG_RUNNING_TASK, a, tk) :
        a \in {Undef} \cup ArgsOver(<<
                  Values("duration", {Absent, Num(3), Num(0), Str("3")}),
                  Values("steps", {Absent, Num(0), Num(-1), Num(1), Num(2), Num(3), NumHalf(0),
                                   NumHalf(1), NumHalf(-2), Str("3")}),
                  Values("taskName", {Absent, Str("Job"), Num(1)})>>),
        tk \in Tokens}
    \cup {Request(ANNOTATED_RESPONSE, a, Undef) :
        a \in ArgsOver(<<Values("messageType", {Absent, Str("info"), Str("warning"),
                                                Str("error"), Str("success"), Str("debug")}),
                         Values("includeMetadata", {Absent, Bool(TRUE), Bool(FALSE),
                                                    Str("yes")})>>)}
    \cup {Request(COMPLEX_ORDER, a, Undef) : a \in ComplexOrderArgs}
    \cup {Request(STRICT_TYPE_VALIDATION, a, Undef) : a \in StrictTypeValidationArgs}
    \cup {Request(UNION_TYPE_TEST, a, Undef) :
        a \in ArgsOver(<<Values("optionalString", {Absent, Str("cat")}),
                         Values("optionalNumber", {Absent, Num(4), Str("4")}),
                         Values("optionalBoolean", {Absent, Bool(FALSE)}),
                         Values("requiredString", {Absent, Str("req"), Num(1)})>>)}
    \cup {Request(n, Obj([k \in {} |-> Undef]), tk) :
        n \in {"doesNotExist", "Echo", ""}, tk \in {Undef, Str("tok")}}

-----------------------------------------------------------------------------
(* The state machine *)

RECURSIVE Sum(_, _)
Sum(f, S) == IF S = {} THEN 0 ELSE LET x == CHOOSE y \in S : TRUE IN f[x] + Sum(f, S \ {x})

\* the capabilities a client may declare when it initializes
ClientCapabilities == {"elicitation", "sampling"}
NotInitialized == "undefined"

\* the operations made so far
Operations ==
    Len(invs) + Sum(cleanupRuns, Sessions) + Sum([s \in Sessions |-> Len(listReply[s])], Sessions)
    + Cardinality({s \in Sessions : declared[s] # NotInitialized})

Init ==
    /\ open = [s \in Sessions |-> TRUE]
    /\ invs = <<>>
    /\ listReply = [s \in Sessions |-> <<>>]
    /\ cleanupRuns = [s \in Sessions |-> 0]
    /\ declared = [s \in Sessions |-> NotInitialized]
    /\ clientCapabilities = NotInitialized

\* a handler that waited for its step timer without leaving the thread
BlocksWhileWaiting(inv) == inv.pc = "timer"

\* whether invocation inv keeps the thread of the process to itself: a handler
\* runs to its next await in one piece, and at `await new Promise(setTimeout)`
\* it hands the thread back until the timer fires
Blocks(inv) == FALSE

\* the thread is free for a handler other than that of invocation id
\* (id = 0: for a new handler)
ThreadFree(id) == \A j \in DOMAIN invs \ {id} : ~Blocks(invs[j])

\* a message arriving on session s finds its handler run
Accepts(s) == open[s] /\ ThreadFree(0)

\* a tools/call request arrives on session s: the handler runs to its first
\* await, or to its end, and then the response is written
Start(s, req) ==
    /\ Accepts(s)
    /\ LET h == CallToolRequestHandler(req.name, req.args)
       IN  /\ invs' = Append(invs,
                  [session |-> s, name |-> req.name, args |-> req.args,
                   progressToken |-> req.progressToken,
                   pc |-> h.pc, i |-> h.i, timers |-> h.timers,
                   validatedArgs |-> h.validatedArgs, result |-> h.result,
                   out |-> IF h.pc = "done" THEN <<Response(h.result)>> ELSE <<>>])
           /\ open' = IF h.pc = "done" THEN SessionsAfter(s, h.result) ELSE open
    /\ UNCHANGED <<listReply, cleanupRuns, declared, clientCapabilities>>

CallTool ==
    \E s \in Sessions, req \in Requests :
        /\ Operations < MaxOperations
        /\ Start(s, req)

\* the one call of a run with a single invocation
CallToolOnce ==
    \E s \in Sessions, req \in WideRequests :
        /\ invs = <<>>
        /\ Start(s, req)

\* the handler of invocation id goes on when its timer fires
Resumes(id) == invs[id].pc = "timer" /\ ThreadFree(id)

\* the timer of a suspended longRunningTask fires: the handler sends the
\* progress notification of the round and goes round the loop, or returns
TimerStep(id) ==
    /\ Resumes(id)
    /\ LET inv == invs[id]
           connected == open[inv.session]
       IN  \E sendThrows \in (IF ProgressDue(inv.progressToken) /\ ~connected
                              THEN BOOLEAN ELSE {FALSE}) :
              LET next == AfterTimer(inv, connected, sendThrows)
              IN  /\ invs' = [invs EXCEPT ![id] = next]
                  /\ open' = IF next.pc = "done"
                             THEN SessionsAfter(inv.session, next.result) ELSE open
    /\ UNCHANGED <<listReply, cleanupRuns, declared, clientCapabilities>>

TimerFires == \E id \in DOMAIN invs : TimerStep(id)

\* a tools/list request arrives on session s
ListTools ==
    \E s \in Sessions :
        /\ Accepts(s)
        /\ Operations < MaxOperations
        /\ listReply' = [listReply EXCEPT ![s] = Append(@, Tools)]
        /\ UNCHANGED <<open, invs, cleanupRuns, declared, clientCapabilities>>

\* the transport of session s closes (disconnect, fault)
Close ==
    \E s \in Sessions :
        /\ open[s]
        /\ open' = [open EXCEPT ![s] = FALSE]
        /\ UNCHANGED <<invs, listReply, cleanupRuns, declared, clientCapabilities>>

\* the cleanup() that createServer returned for the server of session s is called
Cleanup ==
    \E s \in Sessions :
        /\ Operations < MaxOperations
        /\ cleanupRuns' = [cleanupRuns EXCEPT ![s] = CleanupRuns(@)]
        /\ UNCHANGED <<open, invs, listReply, declared, clientCapabilities>>

\* setClientCapabilities(capabilities): the one slot of the tools module
SetClientCapabilities(slot, capabilities) == capabilities

\* the client of session s finishes its initialization, having declared
\* capabilities: server s holds them, and oninitialized passes them on
Initialized ==
    \E s \in Sessions, capabilities \in ClientCapabilities :
        /\ Accepts(s)
        /\ declared[s] = NotInitialized
        /\ Operations < MaxOperations
        /\ declared' = [declared EXCEPT ![s] = capabilities]
        /\ clientCapabilities' = SetClientCapabilities(clientCapabilities, declared'[s])
        /\ UNCHANGED <<open, invs, listReply, cleanupRuns>>

Next == CallTool \/ TimerFires \/ ListTools \/ Close \/ Cleanup \/ Initialized

Spec == Init /\ [][Next]_vars

NextOne == CallToolOnce \/ TimerFires \/ Close

\* one invocation, over the wide range of arguments
SpecOne == Init /\ [][NextOne]_vars

\* the same, where a timer that was set fires and the awaited send settles
SpecOneFair == SpecOne /\ WF_vars(TimerFires)

-----------------------------------------------------------------------------
(* Properties *)

\* the progress notifications among the messages of an invocation
Progresses(out) == SelectSeq(out, LAMBDA m : m.method = "notifications/progress")

\* an invocation of longRunningTask whose arguments passed validation
LongRunning(inv) ==
    inv.name = LONG_RUNNING_TASK /\ Valid(LongRunningTaskSchema, inv.args)

Steps(inv) == Get(inv.validatedArgs, "steps")

\* the invocation that arrived in this step
Arrives == Len(invs') = Len(invs) + 1
Arrived == invs'[Len(invs')]

\* invocation id ended in this step
Ends(id) ==
    /\ id \in DOMAIN invs'
    /\ invs'[id].pc = "done"
    /\ id \in DOMAIN invs => invs[id].pc # "done"

\* C1 (as claimed): on a session that stays open, a finished longRunningTask
\* with a progress token has sent notifications of non-decreasing progress,
\* the last of them with progress equal to its total, and its response comes
\* after all of them.
C1_LastProgressIsTotal ==
    \A id \in DOMAIN invs :
        LET inv == invs[id]
            ps == Progresses(inv.out)
        IN  (LongRunning(inv) /\ ProgressDue(inv.progressToken)
             /\ inv.pc = "done" /\ open[inv.session]) =>
                /\ \A k \in 1..(Len(ps) - 1) : NumLeq(ps[k].progress, ps[k + 1].progress)
                /\ ps # <<>> => ps[Len(ps)].progress = ps[Len(ps)].total
                /\ inv.out = Append(ps, Response(inv.result))

\* C2: on a session that stays open, longRunningTask with a progress token and
\* steps a whole number n >= 1 sends exactly the notifications 1/n, 2/n, ...,
\* n/n in this order under the caller's token and then one success response;
\* while it runs, what it has sent is a prefix of this, so nothing follows the
\* response.
C2_ExactlyNProgress ==
    \A id \in DOMAIN invs :
        LET inv == invs[id]
            n == Steps(inv).n
            sent == IF inv.pc = "done" THEN n ELSE inv.i - 1
        IN  (LongRunning(inv) /\ ProgressDue(inv.progressToken) /\ open[inv.session]
             /\ IsInteger(Steps(inv)) /\ n >= 1) =>
                /\ sent \in 0..n
                /\ Len(inv.out) = sent + (IF inv.pc = "done" THEN 1 ELSE 0)
                /\ \A k \in 1..sent :
                       /\ inv.out[k].method = "notifications/progress"
                       /\ inv.out[k].progress = Num(k)
                       /\ inv.out[k].total = Num(n)
                       /\ inv.out[k].progressToken = inv.progressToken
                /\ inv.pc = "done" =>
                       /\ inv.out[n + 1].method = "response"
                       /\ inv.out[n + 1].outcome.kind = "return"
                       /\ inv.result.kind = "return"

C2_ThreeStepsDone ==
    \E id \in DOMAIN invs :
        /\ invs[id].name = LONG_RUNNING_TASK
        /\ invs[id].args = Obj([duration |-> Num(3), steps |-> Num(3)])
        /\ invs[id].progressToken = Str("tok")
        /\ invs[id].pc = "done"
        /\ open[invs[id].session]
        /\ Len(invs[id].out) = 4

\* C3 (as claimed): a longRunningTask that passed validation runs all its
\* rounds and ends with its success result, whether or not its session was
\* closed on the way: the closed channel raises no error in it.
C3_ClosedChannelRaisesNothing ==
    \A id \in DOMAIN invs :
        LET inv == invs[id]
        IN  (LongRunning(inv) /\ inv.pc = "done") =>
                /\ inv.result.kind = "return"
                /\ inv.i > Steps(inv).n

\* C4: a call of a name outside ToolName ends at once with the error
\* "Unknown tool: <name>", which is the response written to the caller, and
\* the step leaves every session as open as it was.
C4_UnknownToolIsError ==
    [][(Arrives /\ Arrived.name \notin ToolName) =>
          /\ Arrived.pc = "done"
          /\ Arrived.result.kind = "throw"
          /\ Arrived.result.error = "Error"
          /\ Arrived.result.message = "Unknown tool: " \o Arrived.name
          /\ Arrived.timers = 0
          /\ Arrived.out = <<Response(Arrived.result)>>
          /\ open' = open
          /\ open'[Arrived.session]]_vars

C4_DoesNotExistCalled ==
    \E id \in DOMAIN invs :
        /\ invs[id].name = "doesNotExist"
        /\ invs[id].result.message = "Unknown tool: doesNotExist"
        /\ open[invs[id].session]

\* C5: a call of a listed tool whose arguments fail the schema published for
\* it ends at once with the ZodError that names the issues, as the response to
\* the caller: no timer was started, no progress notification sent, and the
\* step leaves every session as open as it was.
C5_InvalidArgumentsAreError ==
    [][(Arrives /\ Arrived.name \in ToolName
          /\ ~Valid(InputSchema(Arrived.name), Arrived.args)) =>
          /\ Arrived.pc = "done"
          /\ Arrived.result.kind = "throw"
          /\ Arrived.result.error = "ZodError"
          /\ Arrived.result.issues = Issues(InputSchema(Arrived.name), Arrived.args, <<>>)
          /\ Arrived.result.issues # <<>>
          /\ Arrived.timers = 0
          /\ Arrived.out = <<Response(Arrived.result)>>
          /\ open' = open
          /\ open'[Arrived.session]]_vars

C5_AddRejectsStringA ==
    \E id \in DOMAIN invs :
        /\ invs[id].name = ADD
        /\ invs[id].args = Obj([a |-> Str("x"), b |-> Num(3)])
        /\ invs[id].result.error = "ZodError"
        /\ invs[id].result.issues[1].path = <<"a">>
        /\ open[invs[id].session]

\* C6: getCurrentTime with a valid argument object whose timezone the runtime
\* rejects ends with the error "Invalid timezone: <tz>" as the response to the
\* caller, and the step leaves every session as open as it was.
C6_HandlerFaultIsError ==
    [][(Arrives /\ Arrived.name = GET_CURRENT_TIME
          /\ Valid(GetCurrentTimeSchema, Arrived.args)
          /\ Truthy(Get(Arrived.args, "timezone"))
          /\ Get(Arrived.args, "timezone").s \notin TimeZones) =>
          /\ Arrived.pc = "done"
          /\ Arrived.result.kind = "throw"
          /\ Arrived.result.error = "Error"
          /\ Arrived.result.message = "Invalid timezone: " \o Get(Arrived.args, "timezone").s
          /\ Arrived.out = <<Response(Arrived.result)>>
          /\ open' = open
          /\ open'[Arrived.session]]_vars

C6_BadTimezoneCalled ==
    \E id \in DOMAIN invs :
        /\ invs[id].name = GET_CURRENT_TIME
        /\ invs[id].result.message = "Invalid timezone: Mars/Phobos"
        /\ open[invs[id].session]

\* what a request returns on a fresh server whose session stays open
FreshResult(name, args) ==
    IF name = LONG_RUNNING_TASK /\ Valid(LongRunningTaskSchema, args)
    THEN Completed(Output(LongRunningTaskSchema, args))
    ELSE CallToolRequestHandler(name, args).result

\* C7: a step in which an invocation ends with an error changes nothing but
\* that invocation: the sessions stay as open as they were, the other
\* invocations, the listings and the cleanup counts are untouched; a session
\* goes from open to closed only in a step of the transport; and an invocation
\* that ends on an open session ends with the result its request has on a
\* fresh server, whatever failed before it.
C7_FailuresLeaveSessionAlone ==
    [][/\ \A id \in DOMAIN invs' :
              (Ends(id) /\ invs'[id].result.kind = "throw") =>
                  /\ open' = open
                  /\ listReply' = listReply
                  /\ cleanupRuns' = cleanupRuns
                  /\ \A j \in DOMAIN invs : j # id => invs'[j] = invs[j]
       /\ \A s \in Sessions : (open[s] /\ ~open'[s]) => UNCHANGED invs
       /\ \A id \in DOMAIN invs' :
              (Ends(id) /\ open'[invs'[id].session]) =>
                  invs'[id].result = FreshResult(invs'[id].name, invs'[id].args)]_vars

C7_ValidAfterFailures ==
    /\ Len(invs) = 2
    /\ invs[1].session = invs[2].session
    /\ open[invs[1].session]
    /\ invs[1].pc = "done" /\ invs[1].result.kind = "throw"
    /\ invs[2].name = ECHO
    /\ invs[2].result = Return(<<Text("Echo: hi")>>)

\* C8 (as claimed): cleanupResources runs at most once for a server, however
\* often its cleanup() is called.
C8_CleanupRunsOnce == \A s \in Sessions : cleanupRuns[s] <= 1

\* C9: every tools/list response carries the nine tools in registration
\* order, no name twice, the same on every call; and the step that answers a
\* listing changes nothing else.
C9_ListingIsStable ==
    [][/\ \A s \in Sessions : \A k \in DOMAIN listReply'[s] :
              /\ [i \in DOMAIN listReply'[s][k] |-> listReply'[s][k][i].name] =
                     <<"echo", "add", "getCurrentTime", "formatData", "longRunningTask",
                       "annotatedResponse", "complexOrder", "strictTypeValidation",
                       "unionTypeTest">>
              /\ \A i, j \in DOMAIN listReply'[s][k] :
                     listReply'[s][k][i].name = listReply'[s][k][j].name => i = j
              /\ listReply'[s][k] = listReply'[s][1]
       /\ (\E s \in Sessions : listReply'[s] # listReply[s]) =>
              /\ \E s \in Sessions : open[s] /\ Len(listReply'[s]) = Len(listReply[s]) + 1
              /\ UNCHANGED <<open, invs, cleanupRuns>>]_vars

C9_ListedTwice == \E s \in Sessions : Len(listReply[s]) = 2

\* C10: a longRunningTask that passed validation and has no progress token
\* sends no progress notification, on an open session or a closed one, starts
\* the timer of every round (max(0, floor(steps)) of them) and ends with its
\* success result.
C10_NoTokenNoProgress ==
    \A id \in DOMAIN invs :
        LET inv == invs[id]
            rounds == IF Steps(inv).n > 0 THEN Steps(inv).n ELSE 0
        IN  (LongRunning(inv) /\ inv.progressToken = Undef) =>
                /\ Progresses(inv.out) = <<>>
                /\ inv.timers <= rounds
                /\ inv.pc = "done" =>
                       /\ inv.timers = rounds
                       /\ inv.result = Completed(Output(LongRunningTaskSchema, inv.args))
                       /\ open[inv.session] => inv.out = <<Response(inv.result)>>

C10_DefaultStepsDoneWithoutToken ==
    \E id \in DOMAIN invs :
        /\ invs[id].name = LONG_RUNNING_TASK
        /\ invs[id].args = Obj([k \in {} |-> Undef])
        /\ invs[id].progressToken = Undef
        /\ invs[id].pc = "done"
        /\ invs[id].timers = 3
        /\ invs[id].result.kind = "return"

RECURSIVE Omitted(_, _, _)
RECURSIVE OmittedIn(_, _, _, _)
RECURSIVE OmittedOf(_, _, _, _)

\* the required keys among shape[i..] that object v leaves out, and those
\* left out inside the objects and arrays it does give, in declared order
OmittedIn(shape, v, path, i) ==
    IF i > Len(shape) THEN <<>>
    ELSE Omitted(shape[i].schema, Get(v, shape[i].key), Append(path, shape[i].key))
         \o OmittedIn(shape, v, path, i + 1)

\* those left out inside the elements v[i..] of an array, in index order
OmittedOf(element, v, path, i) ==
    IF i > Len(v.f) THEN <<>>
    ELSE Omitted(element, v.f[i], Append(path, ToString(i - 1)))
         \o OmittedOf(element, v, path, i + 1)

\* the paths of the required fields that v omits: a field is required unless
\* its declaration is optional, defaulted or any
Omitted(schema, v, path) ==
    CASE schema.k \in {"optional", "default"} ->
            IF v.t = "undefined" THEN <<>> ELSE Omitted(schema.inner, v, path)
      [] schema.k = "any" -> <<>>
      [] v.t = "undefined" -> <<path>>
      [] schema.k = "object" /\ v.t = "object" -> OmittedIn(schema.shape, v, path, 1)
      [] schema.k = "array" /\ v.t = "array" -> OmittedOf(schema.element, v, path, 1)
      [] OTHER -> <<>>

\* the paths of the issues of an error, in the order it lists them
Paths(issues) == [i \in DOMAIN issues |-> issues[i].path]

\* the issues of an error that report a required field left out: a required
\* field left out is reported as invalid_type at a path the arguments omit
Omissions(inv) ==
    LET omitted == Omitted(InputSchema(inv.name), inv.args, <<>>)
    IN  SelectSeq(inv.result.issues,
                  LAMBDA e : e.code = "invalid_type"
                             /\ \E i \in DOMAIN omitted : omitted[i] = e.path)

\* an invocation of a listed tool whose argument object omits required fields
OmitsRequired(inv) ==
    /\ inv.name \in ToolName
    /\ inv.args.t = "object"
    /\ Omitted(InputSchema(inv.name), inv.args, <<>>) # <<>>

\* C11 (as claimed): when the argument object of a listed tool omits required
\* fields, the first field the validation error reports is the first omitted
\* required field in declared order.
C11_FirstIssueIsFirstOmitted ==
    \A id \in DOMAIN invs :
        OmitsRequired(invs[id]) =>
            /\ invs[id].result.error = "ZodError"
            /\ invs[id].result.issues[1].path =
                   Omitted(InputSchema(invs[id].name), invs[id].args, <<>>)[1]

\* C11 (amended): when the argument object of a listed tool omits required
\* fields, the validation error reports every omitted required field, in
\* declared order (array elements in index order); the first field it reports
\* is the first omitted one whenever the omissions are all it reports; and
\* the error is the one the same tool and arguments produce on any server.
C11_OmittedReportedInDeclaredOrder ==
    \A id \in DOMAIN invs :
        LET inv == invs[id]
            omitted == Omitted(InputSchema(inv.name), inv.args, <<>>)
        IN  OmitsRequired(inv) =>
                /\ inv.pc = "done"
                /\ inv.result.error = "ZodError"
                /\ Paths(Omissions(inv)) = omitted
                /\ Len(inv.result.issues) = Len(omitted) =>
                       inv.result.issues[1].path = omitted[1]
                /\ inv.result = FreshResult(inv.name, inv.args)

C11_TwoOmittedInStrict ==
    \E id \in DOMAIN invs :
        /\ invs[id].name = STRICT_TYPE_VALIDATION
        /\ DOMAIN invs[id].args.f = DOMAIN ValidStrict \ {"integerField", "emailField"}
        /\ Paths(invs[id].result.issues) = <<<<"integerField">>, <<"emailField">>>>

\* invocation inv is suspended, waiting for its step timer
Suspended(inv) == inv.pc = "timer"

\* a handler that reaches no await: every tool but a longRunningTask with
\* valid arguments and at least one step
RunsThrough(inv) ==
    ~(LongRunning(inv) /\ LoopContinues(1, Get(Output(LongRunningTaskSchema, inv.args), "steps")))

\* C12: while an invocation of longRunningTask is suspended on its step timer,
\* every open session (its own and the others) has its requests handled, every
\* other suspended invocation goes on when its own timer fires, and an invocation
\* whose handler reaches no await has its terminal Result from the step in
\* which it arrived: no invocation waits for a suspended one to complete.
C12_SuspensionBlocksNobody ==
    \A id \in DOMAIN invs :
        Suspended(invs[id]) =>
            /\ \A s \in Sessions : open[s] => Accepts(s)
            /\ \A j \in DOMAIN invs \ {id} :
                   /\ Suspended(invs[j]) => Resumes(j)
                   /\ RunsThrough(invs[j]) =>
                          /\ invs[j].pc = "done"
                          /\ invs[j].out = <<Response(invs[j].result)>>

C12_ReturnedWhileOtherSuspended ==
    \E id, j \in DOMAIN invs :
        /\ id < j
        /\ Suspended(invs[id]) /\ invs[id].i = 1
        /\ invs[j].session # invs[id].session
        /\ invs[j].pc = "done" /\ invs[j].result.kind = "return"
        /\ invs[j].out = <<Response(invs[j].result)>>

\* the capabilities the handlers of server s find recorded: the tools module
\* has the one slot, whichever server asks
RecordedFor(s) == clientCapabilities

Listed == {Tools[i].name : i \in DOMAIN Tools}

\* the names called in the single calls
Called == {req.name : req \in WideRequests}

\* the names for which the call handler has a branch: called, they end
\* otherwise than at the closing "Unknown tool"
Handled == {name \in Called : CallToolRequestHandler(name, Undef).result # UnknownTool(name)}

\* C14: the names of the listing, the names the call handler has a branch
\* for and the ToolName set are the same names; an invocation of a listed
\* name never ends with "Unknown tool", whatever its arguments, and an
\* invocation of any other name ends with "Unknown tool: <name>" at once.
C14_ListingAndDispatcherAgree ==
    /\ Listed = ToolName
    /\ Handled = Listed
    /\ Len(Tools) = Cardinality(Listed)
    /\ \A id \in DOMAIN invs :
           LET inv == invs[id]
           IN  /\ inv.name \in Listed => inv.result.message # "Unknown tool: " \o inv.name
               /\ inv.name \in Listed /\ inv.pc = "done" /\ open[inv.session] =>
                      inv.result = FreshResult(inv.name, inv.args)
               /\ inv.name \notin Listed =>
                      /\ inv.pc = "done"
                      /\ inv.result = UnknownTool(inv.name)

C14_LastListedToolHandled ==
    \E id \in DOMAIN invs :
        /\ invs[id].name = Tools[Len(Tools)].name
        /\ invs[id].pc = "done"
        /\ invs[id].result.kind = "return"
        /\ "doesNotExist" \in Called \ Handled

\* max(0, floor(x)) of a number
FloorOrZero(x) == IF x.n < 0 THEN 0 ELSE x.n

\* C15: an invocation of longRunningTask whose arguments passed validation
\* never begins more than max(0, floor(steps)) rounds of its loop, and, its
\* timers firing, it ends with a terminal Result: the success Result after
\* exactly max(0, floor(steps)) rounds, or the error of a failed send.
C15_LongRunningTaskEnds ==
    /\ [](\A id \in DOMAIN invs :
             LongRunning(invs[id]) =>
                 /\ invs[id].timers <= FloorOrZero(Steps(invs[id]))
                 /\ invs[id].pc = "done" =>
                        \/ /\ invs[id].result = Completed(invs[id].validatedArgs)
                           /\ invs[id].timers = FloorOrZero(Steps(invs[id]))
                        \/ invs[id].result = Throw("Not connected"))
    /\ (invs # <<>> /\ LongRunning(invs[1]))
           ~> (invs # <<>> /\ invs[1].pc = "done"
                          /\ invs[1].result.kind \in {"return", "throw"})

C15_FractionalStepsEnded ==
    \E id \in DOMAIN invs :
        /\ LongRunning(invs[id])
        /\ Steps(invs[id]) = NumHalf(1)
        /\ invs[id].pc = "done"
        /\ invs[id].timers = 1
        /\ invs[id].result.kind = "return"

====
